---- MODULE Spec2Model ----
(***************************************************************************)
(* Dimension bookkeeping of the batching (vmap) transform, as implemented  *)
(* in aten/src/ATen/native/Batching.cpp.                                   *)
(*                                                                         *)
(* A tensor is modelled by its metadata only: whether it is a              *)
(* BatchedTensor, the sizes of its physical value, and its BatchDims, a    *)
(* sequence of (level, dim) records.  Dimension indices are 0-based as in  *)
(* the code; sequences are 1-based, so physical dim d is sizes[d + 1].     *)
(*                                                                         *)
(* Every function of the file is an operator returning the SET of outcomes *)
(* a call can have: one outcome where the code is deterministic, several   *)
(* where the code has undefined behaviour.                                 *)
(***************************************************************************)
EXTENDS Integers, Sequences, FiniteSets

VARIABLES self, call, ret

vars == <<self, call, ret>>

\* ---------------------------------------------------------------- bounds

MaxRank == 4

MaxLevel == 2

\* a tensor returned by the broadcast path of _remove_batch_dim is passed on
\* to further calls only up to this physical rank
MaxBroadcastRank == 2

SizeSet == {2, 3, 5, 7}

BatchSizes == {5, 7}

Levels == 0 .. MaxLevel

\* ------------------------------------------------------- sequence helpers

\* std::vector::insert(begin() + pos, x) for 0 <= pos <= size()
InsertAt(s, pos, x) == SubSeq(s, 1, pos) \o <<x>> \o SubSeq(s, pos + 1, Len(s))

\* the sequence without its element at 0-based position pos
RemoveAt(s, pos) == SubSeq(s, 1, pos) \o SubSeq(s, pos + 2, Len(s))

\* ----------------------------------------------------------- tensor model

PlainTensor(sizes) == [batched |-> FALSE, sizes |-> sizes, bdims |-> <<>>]

BatchDim(level, dim) == [level |-> level, dim |-> dim]

\* maybeGetBatched(self) != nullptr
maybeGetBatched(t) == t.batched

\* BatchedTensorImpl::value(): the wrapped physical tensor, a plain tensor
value(t) == PlainTensor(t.sizes)

\* makeBatched(tensor, bdims): wrap a plain physical tensor with a tag set
makeBatched(tensor, bdims) ==
  [batched |-> TRUE, sizes |-> tensor.sizes, bdims |-> bdims]

BdimPositions(t) == {t.bdims[i].dim : i \in 1 .. Len(t.bdims)}

BdimLevels(t) == {t.bdims[i].level : i \in 1 .. Len(t.bdims)}

\* Data-model invariants of a tensor: levels distinct, physical dims
\* distinct and inside the physical rank; a plain tensor carries no tags and
\* a BatchedTensor carries at least one.
WellFormed(t) ==
  /\ t.batched <=> Len(t.bdims) > 0
  /\ Cardinality(BdimLevels(t)) = Len(t.bdims)
  /\ Cardinality(BdimPositions(t)) = Len(t.bdims)
  /\ BdimPositions(t) \subseteq 0 .. Len(t.sizes) - 1

\* number of tagged physical dims strictly before physical dim p
BdimsBefore(t, p) == Cardinality({d \in BdimPositions(t) : d < p})

\* Tensor::sizes(): the logical sizes, i.e. the physical sizes of the dims
\* that are not batch dims, in physical order
LogicalSizes(t) ==
  LET keep == {p \in 0 .. Len(t.sizes) - 1 : p \notin BdimPositions(t)}
      F[p \in 0 .. Len(t.sizes)] ==
        IF p = 0 THEN <<>>
        ELSE IF (p - 1) \in keep THEN Append(F[p - 1], t.sizes[p])
             ELSE F[p - 1]
  IN F[Len(t.sizes)]

\* Tensor::dim(): the logical rank
LogicalRank(t) == Len(LogicalSizes(t))

\* A tensor with the tag set of t (batch dims where they were, with their
\* sizes) and the given logical sizes in the untagged positions.
WithLogicalSizes(t, logical) ==
  IF ~t.batched THEN PlainTensor(logical)
  ELSE LET n == Len(t.bdims) + Len(logical)
       IN [t EXCEPT !.sizes =
             [q \in 1 .. n |->
                IF (q - 1) \in BdimPositions(t) THEN t.sizes[q]
                ELSE logical[q - BdimsBefore(t, q - 1)]]]

\* -------------------------------------------------------------- outcomes

NoTensor == PlainTensor(<<>>)

Ok(t, d, perm) ==
  [status |-> "ok", tensor |-> t, dim |-> d, perm |-> perm, found |-> FALSE]

Fail(why) ==
  [status |-> why, tensor |-> NoTensor, dim |-> 0, perm |-> <<>>, found |-> FALSE]

\* the call returned normally after undefined behaviour: its value means
\* nothing
Undefined(t, d) ==
  [status |-> "ub_return", tensor |-> t, dim |-> d, perm |-> <<>>, found |-> FALSE]

Found(b) ==
  [status |-> "ok", tensor |-> NoTensor, dim |-> 0, perm |-> <<>>, found |-> b]

\* ------------------------------------------- collaborators of Batching.cpp

\* addBatchDim(tensor, level, dim): tag `tensor` with one more (level, dim)
\* entry: a fresh one-entry tag set on a plain tensor, else the entry
\* appended to the existing tag set.  Pure metadata, no validation.
addBatchDim(tensor, level, dim) ==
  IF ~maybeGetBatched(tensor)
  THEN makeBatched(tensor, <<BatchDim(level, dim)>>)
  ELSE makeBatched(value(tensor), Append(tensor.bdims, BatchDim(level, dim)))

\* maybe_wrap_dim(dim, dim_post_expr) accepts dim in [-n, n-1] ...
WrapInRange(dim, n) == -n <= dim /\ dim <= n - 1

\* ... and maps a negative dim to dim + n
maybe_wrap_dim(dim, n) == IF dim < 0 THEN dim + n ELSE dim

\* Tensor::permute(dims): logical dim i of the result is logical dim dims[i]
\* of the input (perm is a 1-based sequence of 0-based dims)
permute(t, perm) ==
  LET old == LogicalSizes(t)
  IN WithLogicalSizes(t, [i \in 1 .. Len(perm) |-> old[perm[i] + 1]])

\* Tensor::expand(sizes): broadcast to the logical shape `sizes`, which must
\* be the tensor's logical shape with new dimensions inserted (or the same
\* shape); the tag set is kept.  One new dimension is all the callers need.
CanExpand(t, sizes) ==
  \/ sizes = LogicalSizes(t)
  \/ \E pos \in 0 .. Len(sizes) - 1 : RemoveAt(sizes, pos) = LogicalSizes(t)

expand(t, sizes) ==
  IF CanExpand(t, sizes)
  THEN {Ok(WithLogicalSizes(t, sizes), 0, <<>>)}
  ELSE {Fail("expand_error")}

\* ------------------------------------------------------------ Batching.cpp

\* Tensor _add_batch_dim(self, batch_dim, level)
add_batch_dim(t, batch_dim, level) == addBatchDim(t, level, batch_dim)

\* has_level as it would be if it only looked whether the tensor is batched
has_level_AnyLevel(t, level) == maybeGetBatched(t)

\* static bool has_level(self, level)
has_level(t, level) ==
  IF ~maybeGetBatched(t) THEN FALSE
  ELSE \E i \in 1 .. Len(t.bdims) : t.bdims[i].level = level

\* Values an uninitialized int64_t can be read as (a bounded sample).
GarbageDims == -1 .. MaxRank

\* The values newly_exposed_physical_dim can hold after the loop: the dim of
\* the last entry with `level` if there is one; otherwise it was never
\* assigned and is read uninitialized.
NewlyExposedPhysicalDims(bdims, level) ==
  LET hits == {i \in 1 .. Len(bdims) : bdims[i].level = level}
  IN IF hits = {} THEN GarbageDims
     ELSE {bdims[CHOOSE i \in hits : \A j \in hits : j <= i].dim}

\* new_bdims as it would be if the loop compared bdim.dim() with `level`
NewBdims_ByDim(bdims, level) ==
  LET F[n \in 0 .. Len(bdims)] ==
        IF n = 0 THEN <<>>
        ELSE IF bdims[n].dim = level THEN F[n - 1]
             ELSE Append(F[n - 1], bdims[n])
  IN F[Len(bdims)]

\* the entries the loop pushes to new_bdims, in order
NewBdims(bdims, level) ==
  LET F[n \in 0 .. Len(bdims)] ==
        IF n = 0 THEN <<>>
        ELSE IF bdims[n].level = level THEN F[n - 1]
             ELSE Append(F[n - 1], bdims[n])
  IN F[Len(bdims)]

\* the count as it would be with the comparison turned around
NumBatchDimsBefore_After(new_bdims, exposed) ==
  Cardinality({i \in 1 .. Len(new_bdims) : new_bdims[i].dim > exposed})

\* std::count_if(new_bdims, bdim.dim() < newly_exposed_physical_dim)
NumBatchDimsBefore(new_bdims, exposed) ==
  Cardinality({i \in 1 .. Len(new_bdims) : new_bdims[i].dim < exposed})

\* the logical dim as it would be without the shift by the batch dims before
NewlyExposedLogicalDim_NoShift(new_bdims, exposed) == exposed

\* newly_exposed_physical_dim - num_batch_dims_before_newly_exposed_physical_dim
NewlyExposedLogicalDim(new_bdims, exposed) ==
  exposed - NumBatchDimsBefore(new_bdims, exposed)

\* the pair as it would be with bdims[0].level() in place of bdims[0].dim()
SingleBdimResult_Level(t) == Ok(value(t), t.bdims[1].level, <<>>)

\* std::make_pair(batched->value(), bdims[0].dim())
SingleBdimResult(t) == Ok(value(t), t.bdims[1].dim, <<>>)

\* static std::pair<Tensor,int64_t> remove_existing_batch_dim(self, level)
remove_existing_batch_dim(t, level) ==
  IF ~maybeGetBatched(t) THEN {Fail("internal_assert")}
  ELSE IF Len(t.bdims) = 1
  THEN IF t.bdims[1].level # level THEN {Fail("internal_assert")}
       ELSE {SingleBdimResult(t)}
  ELSE LET new_bdims == NewBdims(t.bdims, level)
           result_tensor == makeBatched(value(t), new_bdims)
       IN IF \E i \in 1 .. Len(t.bdims) : t.bdims[i].level = level
          THEN {Ok(result_tensor, NewlyExposedLogicalDim(new_bdims, exposed), <<>>)
                  : exposed \in NewlyExposedPhysicalDims(t.bdims, level)}
          ELSE {Undefined(result_tensor, NewlyExposedLogicalDim(new_bdims, exposed))
                  : exposed \in NewlyExposedPhysicalDims(t.bdims, level)}

\* the permutation as it would be if src and dst were exchanged (a transpose)
MovedimPermutation_Swap(logical_dim, src, dst) ==
  [i \in 1 .. logical_dim |->
     IF i - 1 = src THEN dst ELSE IF i - 1 = dst THEN src ELSE i - 1]

\* the permutation movedim builds for wrapped src # dst: every dim but src
\* in increasing order, then src inserted at position dst
MovedimPermutation(logical_dim, src, dst) ==
  LET F[d \in 0 .. logical_dim] ==
        IF d = 0 THEN <<>>
        ELSE IF d - 1 = src THEN F[d - 1]
             ELSE Append(F[d - 1], d - 1)
  IN InsertAt(F[logical_dim], dst, src)

\* movedim as it would be with dst wrapped from src (dst = maybe_wrap_dim(src))
movedim_DstFromSrc(t, src, dst) ==
  LET logical_dim == LogicalRank(t)
  IN IF ~WrapInRange(src, logical_dim) THEN {Fail("index_error")}
     ELSE IF ~WrapInRange(dst, logical_dim) THEN {Fail("index_error")}
     ELSE LET s == maybe_wrap_dim(src, logical_dim)
              d == maybe_wrap_dim(src, logical_dim)
          IN IF s = d THEN {Ok(t, 0, <<>>)}
             ELSE LET permutation == MovedimPermutation(logical_dim, s, d)
                  IN {Ok(permute(t, permutation), 0, permutation)}

\* static Tensor movedim(self, src, dst)
movedim(t, src, dst) ==
  LET logical_dim == LogicalRank(t)
  IN IF ~WrapInRange(src, logical_dim) THEN {Fail("index_error")}
     ELSE IF ~WrapInRange(dst, logical_dim) THEN {Fail("index_error")}
     ELSE LET s == maybe_wrap_dim(src, logical_dim)
              d == maybe_wrap_dim(dst, logical_dim)
          IN IF s = d THEN {Ok(t, 0, <<>>)}
             ELSE LET permutation == MovedimPermutation(logical_dim, s, d)
                  IN {Ok(permute(t, permutation), 0, permutation)}

\* Outcomes of expanded_sizes.insert(begin() + out_dim, batch_size) followed
\* by expand when out_dim is outside [0, size()]: the iterator is invalid,
\* so the call may crash, or return a tensor expanded to sizes that hold a
\* stray value.
StraySizes == BatchSizes \cup {0}

InsertOutOfRange(t, self_sizes) ==
  {Fail("crash")} \cup
  {Undefined(WithLogicalSizes(t, InsertAt(self_sizes, pos, g)), 0)
     : pos \in 0 .. Len(self_sizes), g \in StraySizes}

\* expanded_sizes as it would be with batch_size inserted at begin()
ExpandedSizes_Front(self_sizes, batch_size, out_dim) ==
  InsertAt(self_sizes, 0, batch_size)

\* expanded_sizes: a copy of self_sizes with batch_size inserted at out_dim
ExpandedSizes(self_sizes, batch_size, out_dim) ==
  InsertAt(self_sizes, out_dim, batch_size)

\* _remove_batch_dim as it would be with the arguments of movedim exchanged
remove_batch_dim_MoveBack(t, level, batch_size, out_dim) ==
  IF ~has_level(t, level)
  THEN LET self_sizes == LogicalSizes(t)
       IN IF 0 <= out_dim /\ out_dim <= Len(self_sizes)
          THEN expand(t, ExpandedSizes(self_sizes, batch_size, out_dim))
          ELSE InsertOutOfRange(t, self_sizes)
  ELSE UNION {IF o.status # "ok" THEN {o}
              ELSE movedim(o.tensor, out_dim, o.dim)
                : o \in remove_existing_batch_dim(t, level)}

\* Tensor _remove_batch_dim(self, level, batch_size, out_dim)
remove_batch_dim(t, level, batch_size, out_dim) ==
  IF ~has_level(t, level)
  THEN LET self_sizes == LogicalSizes(t)
       IN IF 0 <= out_dim /\ out_dim <= Len(self_sizes)
          THEN expand(t, ExpandedSizes(self_sizes, batch_size, out_dim))
          ELSE InsertOutOfRange(t, self_sizes)
  ELSE UNION {IF o.status # "ok" THEN {o}
              ELSE movedim(o.tensor, o.dim, out_dim)
                : o \in remove_existing_batch_dim(t, level)}

\* ------------------------------------------------------- the specification

Shapes ==
  UNION {{s \in [1 .. n -> SizeSet] : \A i, j \in 1 .. n : s[i] = s[j] => i = j}
           : n \in 0 .. MaxRank}

Init ==
  /\ self \in {PlainTensor(s) : s \in Shapes}
  /\ call = [fn |-> "none"]
  /\ ret = Fail("none")

\* The arguments the callers are modelled to pass: every valid index and the
\* first invalid one on each side.
OutDims(t) == -1 .. LogicalRank(t) + 1

MoveDims(t) == -(LogicalRank(t) + 1) .. LogicalRank(t)

\* _add_batch_dim(self, batch_dim, level) as the callers guarantee: the level
\* is above every level of `self` (levels are handed out in increasing order
\* as scopes are entered) and batch_dim is a physical dim of `self` that is
\* not tagged yet
Call_add_batch_dim(level, batch_dim) ==
  /\ call.fn = "none"
  /\ \A l \in BdimLevels(self) : l < level
  /\ batch_dim \in 0 .. Len(self.sizes) - 1
  /\ batch_dim \notin BdimPositions(self)
  /\ call' = [fn |-> "_add_batch_dim", level |-> level, batch_dim |-> batch_dim]
  /\ ret' = Ok(add_batch_dim(self, batch_dim, level), 0, <<>>)
  /\ UNCHANGED self

\* has_level(self, level)
Call_has_level(level) ==
  /\ call.fn = "none"
  /\ call' = [fn |-> "has_level", level |-> level]
  /\ ret' = Found(has_level(self, level))
  /\ UNCHANGED self

\* remove_existing_batch_dim(self, level)
Call_remove_existing_batch_dim(level) ==
  /\ call.fn = "none"
  /\ call' = [fn |-> "remove_existing_batch_dim", level |-> level]
  /\ ret' \in remove_existing_batch_dim(self, level)
  /\ UNCHANGED self

\* movedim(self, src, dst)
Call_movedim(src, dst) ==
  /\ call.fn = "none"
  /\ call' = [fn |-> "movedim", src |-> src, dst |-> dst]
  /\ ret' \in movedim(self, src, dst)
  /\ UNCHANGED self

\* _remove_batch_dim(self, level, batch_size, out_dim)
Call_remove_batch_dim(level, batch_size, out_dim) ==
  /\ call.fn = "none"
  /\ call' = [fn |-> "_remove_batch_dim", level |-> level,
              batch_size |-> batch_size, out_dim |-> out_dim]
  /\ ret' \in remove_batch_dim(self, level, batch_size, out_dim)
  /\ UNCHANGED self

\* The caller passes the tensor a call returned to the next call.
UseResult ==
  /\ call.fn \in {"_add_batch_dim", "remove_existing_batch_dim", "movedim",
                  "_remove_batch_dim"}
  /\ ret.status = "ok"
  /\ Len(ret.tensor.sizes) <= MaxRank
  /\ (call.fn = "_remove_batch_dim" /\ ~has_level(self, call.level))
       => Len(ret.tensor.sizes) <= MaxBroadcastRank
  /\ self' = ret.tensor
  /\ call' = [fn |-> "none"]
  /\ ret' = Fail("none")

\* The caller drops the result and keeps its tensor.
DropResult ==
  /\ call.fn # "none"
  /\ call' = [fn |-> "none"]
  /\ ret' = Fail("none")
  /\ UNCHANGED self

Next ==
  \/ \E level \in Levels, d \in 0 .. MaxRank : Call_add_batch_dim(level, d)
  \/ \E level \in Levels : Call_has_level(level)
  \/ \E level \in Levels : Call_remove_existing_batch_dim(level)
  \/ \E src \in MoveDims(self), dst \in MoveDims(self) : Call_movedim(src, dst)
  \/ \E level \in Levels, b \in BatchSizes, o \in OutDims(self) :
       Call_remove_batch_dim(level, b, o)
  \/ UseResult
  \/ DropResult

Spec == Init /\ [][Next]_vars

\* ------------------------------------------------- round trip on any position

\* _add_batch_dim on a plain tensor with any position in [0, rank]; nothing
\* in the path validates batch_dim against the rank.
Call_add_batch_dim_plain(level, batch_dim) ==
  /\ call.fn = "none"
  /\ ~maybeGetBatched(self)
  /\ batch_dim \in 0 .. Len(self.sizes)
  /\ call' = [fn |-> "_add_batch_dim", level |-> level, batch_dim |-> batch_dim]
  /\ ret' = Ok(add_batch_dim(self, batch_dim, level), 0, <<>>)
  /\ UNCHANGED self

RoundTripNext ==
  \/ \E level \in Levels, d \in 0 .. MaxRank : Call_add_batch_dim_plain(level, d)
  \/ \E level \in Levels : Call_has_level(level)
  \/ \E level \in Levels : Call_remove_existing_batch_dim(level)
  \/ UseResult
  \/ DropResult

RoundTripSpec == Init /\ [][RoundTripNext]_vars

\* ------------------------------------------- vocabulary of the properties

\* the tag set of t has an entry for `level`
HasEntry(t, level) ==
  t.batched /\ \E i \in 1 .. Len(t.bdims) : t.bdims[i].level = level

\* the physical dim of that entry
EntryDim(t, level) ==
  t.bdims[CHOOSE i \in 1 .. Len(t.bdims) : t.bdims[i].level = level].dim

Called(fn) == call.fn = fn

\* ------------------------------------------------------------- properties

\* C1 (round trip): for a plain tensor A, a level L and a position p in
\* [0, rank(A)], remove_existing_batch_dim(_add_batch_dim(A, p, L), L) returns
\* the plain tensor A and the logical dim p.
C1_RoundTrip ==
  \A L \in Levels, p \in 0 .. Len(self.sizes) :
    ( /\ Called("remove_existing_batch_dim")
      /\ call.level = L
      /\ self = add_batch_dim(PlainTensor(self.sizes), p, L) )
    => ( /\ ret.status = "ok"
         /\ ret.tensor = PlainTensor(self.sizes)
         /\ ret.dim = p )

\* C1 happens, at the upper end of the range of positions: a tensor of rank
\* at least 2 tagged at p = rank went through the round trip.
C1_Witness ==
  /\ Called("remove_existing_batch_dim")
  /\ Len(self.sizes) >= 2
  /\ self = add_batch_dim(PlainTensor(self.sizes), Len(self.sizes), call.level)
  /\ ret.status = "ok"
  /\ ret.dim = Len(self.sizes)

\* C2 (index remapping): on a well-formed tensor with an entry (level, e),
\* remove_existing_batch_dim returns the logical dim e - c, c the number of
\* the other entries whose physical dim is below e; in particular entries
\* {(0,1),(1,3)} and level 1 give 2, entries {(0,1),(1,2)} and level 1 give 1.
C2_IndexRemapping ==
  ( /\ Called("remove_existing_batch_dim")
    /\ WellFormed(self)
    /\ HasEntry(self, call.level) )
  => LET e == EntryDim(self, call.level)
         c == Cardinality({i \in 1 .. Len(self.bdims) :
                /\ self.bdims[i].level # call.level
                /\ self.bdims[i].dim < e})
     IN /\ ret.status = "ok"
        /\ ret.dim = e - c
        /\ ( /\ self.bdims = <<BatchDim(0, 1), BatchDim(1, 3)>>
             /\ call.level = 1 ) => ret.dim = 2
        /\ ( /\ self.bdims = <<BatchDim(0, 1), BatchDim(1, 2)>>
             /\ call.level = 1 ) => ret.dim = 1

\* C2 happens: the entry at physical dim 3 was removed from {(0,1),(1,3)}.
C2_Witness ==
  /\ Called("remove_existing_batch_dim")
  /\ self.bdims = <<BatchDim(0, 1), BatchDim(1, 3)>>
  /\ call.level = 1
  /\ ret.status = "ok"
  /\ ret.dim = 2

\* C7 (fail fast): every remove_existing_batch_dim(self, level) on a tensor
\* with no entry for `level` ends in an internal assertion failure and
\* returns nothing.
C7_FailFast ==
  ( /\ Called("remove_existing_batch_dim")
    /\ ~HasEntry(self, call.level) )
  => ret.status = "internal_assert"

\* C9 (frame of removal), on the result: for a well-formed tensor with an
\* entry for `level`, the result has the same physical sizes and exactly the
\* other entries, unchanged and in the input's order, and it is a
\* BatchedTensor iff an entry remains.
C9_ResultFrame ==
  ( /\ Called("remove_existing_batch_dim")
    /\ WellFormed(self)
    /\ HasEntry(self, call.level) )
  => /\ ret.status = "ok"
     /\ ret.tensor.sizes = self.sizes
     /\ \E i \in 1 .. Len(self.bdims) :
          /\ self.bdims[i].level = call.level
          /\ ret.tensor.bdims =
               SubSeq(self.bdims, 1, i - 1) \o
               SubSeq(self.bdims, i + 1, Len(self.bdims))
     /\ ret.tensor.batched <=> Len(self.bdims) > 1
     /\ ret.tensor.batched <=> Len(ret.tensor.bdims) > 0

\* C9 (frame of removal), on the input: the call leaves the input tensor,
\* tag set included, as it was.
C9_InputFrame ==
  (call.fn = "none" /\ call'.fn = "remove_existing_batch_dim") => self' = self

\* C9: both parts.
C9_Frame == [](C9_ResultFrame) /\ [][C9_InputFrame]_vars

\* C9 happens: an entry was removed from a tag set of three and the two
\* others survive.
C9_Witness ==
  /\ Called("remove_existing_batch_dim")
  /\ Len(self.bdims) = 3
  /\ HasEntry(self, call.level)
  /\ ret.status = "ok"
  /\ Len(ret.tensor.bdims) = 2

\* C10 (exposed index in range): for a well-formed tensor with k entries, one
\* of them for `level`, the logical dim returned lies in [0, R - 1] for
\* R = physical rank - (k - 1), the logical rank of the returned tensor; and
\* _remove_batch_dim with an out_dim in [-R, R - 1] raises no range error.
C10_ExposedInRange ==
  /\ ( /\ Called("remove_existing_batch_dim")
       /\ WellFormed(self)
       /\ HasEntry(self, call.level) )
     => LET R == Len(self.sizes) - (Len(self.bdims) - 1)
        IN /\ ret.status = "ok"
           /\ 0 <= ret.dim /\ ret.dim <= R - 1
           /\ R = LogicalRank(ret.tensor)
  /\ ( /\ Called("_remove_batch_dim")
       /\ WellFormed(self)
       /\ HasEntry(self, call.level) )
     => LET R == Len(self.sizes) - (Len(self.bdims) - 1)
        IN (-R <= call.out_dim /\ call.out_dim <= R - 1)
             => ret.status = "ok"

\* C10 happens at the top of the range: the exposed dim is the last logical
\* dim of a result that still has a batch dim before it.
C10_Witness ==
  /\ Called("remove_existing_batch_dim")
  /\ Len(self.bdims) >= 2
  /\ HasEntry(self, call.level)
  /\ ret.status = "ok"
  /\ ret.dim = LogicalRank(ret.tensor) - 1
  /\ ret.dim < EntryDim(self, call.level)

\* the elements of s
Range(s) == {s[i] : i \in 1 .. Len(s)}

\* s is strictly increasing
Increasing(s) == \A i, j \in 1 .. Len(s) : i < j => s[i] < s[j]

C8_WrapAndRange ==
  LET r == LogicalRank(self)
      old == LogicalSizes(self)
      new == LogicalSizes(ret.tensor)
      InRange(i) == -r <= i /\ i <= r - 1
      Norm(i) == IF i < 0 THEN i + r ELSE i
  IN Called("movedim") =>
       /\ (~InRange(call.src) \/ ~InRange(call.dst))
            => ret.status = "index_error"
       /\ (InRange(call.src) /\ InRange(call.dst))
            => /\ ret.status = "ok"
               /\ Len(new) = r
               /\ new[Norm(call.dst) + 1] = old[Norm(call.src) + 1]
               /\ RemoveAt(new, Norm(call.dst)) = RemoveAt(old, Norm(call.src))

\* C8 happens: movedim(A, -1, 0) on a rank-3 tensor moved the last dim to the
\* front, as movedim(A, 2, 0) does.
C8_Witness ==
  /\ Called("movedim")
  /\ self = PlainTensor(<<3, 5, 7>>)
  /\ call.src = -1 /\ call.dst = 0
  /\ ret.tensor = PlainTensor(<<7, 3, 5>>)

C5_RemovePresent ==
  LET s == LogicalSizes(self)
      new == LogicalSizes(ret.tensor)
  IN ( /\ Called("_remove_batch_dim")
       /\ HasEntry(self, call.level)
       /\ call.out_dim \in 0 .. Len(s) )
     => /\ ret.status = "ok"
        /\ ~HasEntry(ret.tensor, call.level)
        /\ BdimLevels(ret.tensor) = BdimLevels(self) \ {call.level}
        /\ Len(new) = Len(s) + 1
        /\ new[call.out_dim + 1] = self.sizes[EntryDim(self, call.level) + 1]
        /\ RemoveAt(new, call.out_dim) = s
        /\ Len(self.bdims) = 1 => ret.tensor = PlainTensor(ret.tensor.sizes)

\* C5 happens: the level tagged on the last physical dim, behind another
\* batch dim, was removed and its dim put first.
C5_Witness ==
  /\ Called("_remove_batch_dim")
  /\ self.sizes = <<2, 3, 5, 7>>
  /\ self.bdims = <<BatchDim(0, 1), BatchDim(1, 3)>>
  /\ call.level = 1 /\ call.out_dim = 0
  /\ ret.status = "ok"
  /\ LogicalSizes(ret.tensor) = <<7, 2, 5>>

\* the size-3 tensor of the nesting example, tagged at level 0
NestedX == makeBatched(PlainTensor(<<3>>), <<BatchDim(0, 0)>>)

\* C6 as stated (end-to-end nesting): on the size-3 tensor tagged at level 0,
\* _remove_batch_dim for level 1 with batch_size 5 and out_dim 1 completes,
\* and _remove_batch_dim for level 0 with out_dim 0 on its result yields the
\* plain tensor of shape (3,5).
C6_NestingOutDim1 ==
  /\ ( /\ Called("_remove_batch_dim")
       /\ self = NestedX
       /\ call.level = 1 /\ call.batch_size = 5 /\ call.out_dim = 1 )
     => ret.status = "ok"
  /\ ( /\ Called("_remove_batch_dim")
       /\ \E o \in remove_batch_dim(NestedX, 1, 5, 1) :
            o.status = "ok" /\ self = o.tensor
       /\ call.level = 0 /\ call.out_dim = 0 )
     => ret = Ok(PlainTensor(<<3, 5>>), 0, <<>>)

\* C6 amended: the same with out_dim 0 in the call for level 1 (the tensor
\* has logical rank 0 there, so 0 is the only position): the first call
\* returns a tensor of logical shape (5) still tagged at level 0 only, and
\* the call for level 0 with out_dim 0 on such a tensor yields the plain
\* tensor of shape (3,5).
C6_Nesting ==
  /\ ( /\ Called("_remove_batch_dim")
       /\ self = NestedX
       /\ call.level = 1 /\ call.batch_size = 5 /\ call.out_dim = 0 )
     => /\ ret.status = "ok"
        /\ LogicalSizes(ret.tensor) = <<5>>
        /\ BdimLevels(ret.tensor) = {0}
        /\ ret.tensor.sizes[EntryDim(ret.tensor, 0) + 1] = 3
  /\ ( /\ Called("_remove_batch_dim")
       /\ WellFormed(self)
       /\ BdimLevels(self) = {0}
       /\ LogicalSizes(self) = <<5>>
       /\ self.sizes[EntryDim(self, 0) + 1] = 3
       /\ call.level = 0 /\ call.out_dim = 0 )
     => /\ ret.status = "ok"
        /\ ret.tensor = PlainTensor(<<3, 5>>)

\* C6 amended happens: the second call was made on the result of the first
\* and returned the plain (3,5) tensor.
C6_Witness ==
  /\ Called("_remove_batch_dim")
  /\ \E o \in remove_batch_dim(NestedX, 1, 5, 0) :
       o.status = "ok" /\ self = o.tensor
  /\ call.level = 0 /\ call.out_dim = 0
  /\ ret.tensor = PlainTensor(<<3, 5>>)

====
